---- MODULE Spec2Model ----
(***************************************************************************)
(* Dark Trace Detector (src/dark_trace_detector.py).                       *)
(*                                                                         *)
(* One run of the script: fetch_transactions, then the loop of             *)
(* detect_suspicious_contracts with one fetch_contract_info round trip per *)
(* candidate transaction, then the report.  Python strings are sequences   *)
(* of one-character strings; a JSON value is a record [tag, s] whose tag   *)
(* says whether the key is absent, null or a string.                       *)
(***************************************************************************)
EXTENDS Integers, Sequences, FiniteSets, TLC

VARIABLES
    pc,             \* position of the script
    api_txlist,     \* JSON body answered by the txlist endpoint
    max_age_days,   \* args.age
    txs,            \* main: value returned by fetch_transactions
    now,            \* detect_suspicious_contracts: datetime.utcnow()
    i,              \* 1-based position of the for loop in transactions
    to,             \* loop local
    input_data,     \* loop local
    contract_info,  \* loop local: value returned by fetch_contract_info
    suspicious,     \* the list being accumulated
    calls,          \* fetch_contract_info calls made so far, in call order:
                    \* the address passed and the transaction it was for
    error,          \* exception that ended the run, "none" if none
    result,         \* main: value returned by detect_suspicious_contracts
    printed         \* what the report printed

vars == <<pc, api_txlist, max_age_days, txs, now, i, to, input_data,
          contract_info, suspicious, calls, error, result, printed>>

----------------------------------------------------------------------------
(* Bounds *)

MaxTx == 2

----------------------------------------------------------------------------
(* JSON / Python values *)

Absent == [tag |-> "absent", s |-> <<>>]
None == [tag |-> "null", s |-> <<>>]
Str(chars) == [tag |-> "str", s |-> chars]

\* Python truthiness of None or a str: `not v` is ~Truthy(v)
Truthy(v) == v.tag = "str" /\ v.s # <<>>

\* dict.get(key, default): the default only when the key is absent
DictGet(field, default) == IF field.tag = "absent" THEN default ELSE field

Min(a, b) == IF a <= b THEN a ELSE b

\* s[:n]
Slice(s, n) == SubSeq(s, 1, Min(n, Len(s)))

Whitespace == {" ", "\t", "\n", "\r"}

RECURSIVE LStrip(_)
LStrip(s) ==
    IF s # <<>> /\ Head(s) \in Whitespace THEN LStrip(Tail(s)) ELSE s

RECURSIVE RStrip(_)
RStrip(s) ==
    IF s # <<>> /\ s[Len(s)] \in Whitespace
    THEN RStrip(SubSeq(s, 1, Len(s) - 1))
    ELSE s

\* str.strip()
Strip(s) == RStrip(LStrip(s))

----------------------------------------------------------------------------
(* datetime.strptime(created, "%Y-%m-%d") and datetime subtraction *)

Digits == {"0", "1", "2", "3", "4", "5", "6", "7", "8", "9"}

DigitVal(c) ==
    CASE c = "0" -> 0 [] c = "1" -> 1 [] c = "2" -> 2 [] c = "3" -> 3
      [] c = "4" -> 4 [] c = "5" -> 5 [] c = "6" -> 6 [] c = "7" -> 7
      [] c = "8" -> 8 [] c = "9" -> 9

\* %Y is the regex \d\d\d\d
YearTok(t) == Len(t) = 4 /\ \A k \in 1..4 : t[k] \in Digits

\* %m is the regex 1[0-2]|0[1-9]|[1-9]
MonthTok(t) ==
    \/ Len(t) = 2 /\ t[1] = "1" /\ t[2] \in {"0", "1", "2"}
    \/ Len(t) = 2 /\ t[1] = "0" /\ t[2] \in Digits \ {"0"}
    \/ Len(t) = 1 /\ t[1] \in Digits \ {"0"}

\* %d is the regex 3[0-1]|[1-2]\d|0[1-9]|[1-9]| [1-9]
DayTok(t) ==
    \/ Len(t) = 2 /\ t[1] = "3" /\ t[2] \in {"0", "1"}
    \/ Len(t) = 2 /\ t[1] \in {"1", "2"} /\ t[2] \in Digits
    \/ Len(t) = 2 /\ t[1] = "0" /\ t[2] \in Digits \ {"0"}
    \/ Len(t) = 1 /\ t[1] \in Digits \ {"0"}
    \/ Len(t) = 2 /\ t[1] = " " /\ t[2] \in Digits \ {"0"}

RECURSIVE TokVal(_)
TokVal(t) ==
    IF t = <<>> THEN 0
    ELSE IF t[Len(t)] = " " THEN 0
    ELSE TokVal(SubSeq(t, 1, Len(t) - 1)) * 10 + DigitVal(t[Len(t)])

\* lengths m of the month token for which the whole string matches
\* year "-" month "-" day with nothing left over
MonthSplits(s) ==
    { m \in {1, 2} :
        /\ Len(s) >= 7 + m
        /\ YearTok(SubSeq(s, 1, 4))
        /\ s[5] = "-"
        /\ MonthTok(SubSeq(s, 6, 5 + m))
        /\ s[6 + m] = "-"
        /\ DayTok(SubSeq(s, 7 + m, Len(s))) }

IsLeap(y) == y % 4 = 0 /\ (y % 100 # 0 \/ y % 400 = 0)

DaysInMonth(y, m) ==
    CASE m \in {1, 3, 5, 7, 8, 10, 12} -> 31
      [] m \in {4, 6, 9, 11} -> 30
      [] m = 2 -> IF IsLeap(y) THEN 29 ELSE 28

RECURSIVE DaysBeforeMonth(_, _)
DaysBeforeMonth(y, m) ==
    IF m = 1 THEN 0 ELSE DaysBeforeMonth(y, m - 1) + DaysInMonth(y, m - 1)

\* date.toordinal(): 0001-01-01 is day 1
Ordinal(y, m, d) ==
    LET p == y - 1
    IN  p * 365 + (p \div 4) - (p \div 100) + (p \div 400)
        + DaysBeforeMonth(y, m) + d

\* a parser that never fails: an unreadable string becomes day 1
StrptimeLenient(s) ==
    IF MonthSplits(s) = {} THEN [ok |-> TRUE, ordinal |-> 1]
    ELSE LET m == CHOOSE k \in MonthSplits(s) : TRUE
         IN  [ok |-> TRUE,
              ordinal |-> Ordinal(TokVal(SubSeq(s, 1, 4)),
                                  TokVal(SubSeq(s, 6, 5 + m)), 1)]

\* strptime: [ok |-> FALSE] stands for the ValueError
Strptime(s) ==
    IF MonthSplits(s) = {} THEN [ok |-> FALSE, ordinal |-> 0]
    ELSE LET m == CHOOSE k \in MonthSplits(s) : TRUE
             y == TokVal(SubSeq(s, 1, 4))
             mo == TokVal(SubSeq(s, 6, 5 + m))
             d == TokVal(SubSeq(s, 7 + m, Len(s)))
         IN  IF y >= 1 /\ d <= DaysInMonth(y, mo)
             THEN [ok |-> TRUE, ordinal |-> Ordinal(y, mo, d)]
             ELSE [ok |-> FALSE, ordinal |-> 0]

\* whole days by truncation toward zero instead of normalisation
TimedeltaDaysTruncated(days, seconds) ==
    LET total == days * (24 * 3600) + seconds
    IN  IF total >= 0 THEN total \div (24 * 3600)
        ELSE -((-total) \div (24 * 3600))

\* timedelta normalisation: days carry the floor of seconds / 86400 and
\* seconds stay in 0..86399
TimedeltaDays(days, seconds) == days + (seconds \div (24 * 3600))

\* (now - created_date).days, created_date at 00:00:00
AgeDays(n, created_ordinal) ==
    TimedeltaDays(n.ordinal - created_ordinal, n.seconds - 0)

----------------------------------------------------------------------------
(* The inputs of a run: transactions, contract records, clock, threshold *)

AddrA == Str(<<"0", "x", "A", "A", "A">>)
AddrB == Str(<<"0", "x", "B", "B", "B">>)

EmptyStr == Str(<<>>)
PlainTransfer == Str(<<"0", "x">>)
LongInput == Str(<<"0", "x", "a", "9", "0", "5", "9", "c", "b", "b", "0", "0", "f", "f">>)
ShortInput == Str(<<"0", "x", "2", "3", "b", "8">>)

\* (to, input) of the transaction objects the txlist endpoint may deliver:
\* two contract calls, the transfers and creations the loop skips, and an
\* object without the "to" key
TxShapes ==
    { [to |-> AddrA, input |-> LongInput],
      [to |-> AddrB, input |-> ShortInput],
      [to |-> None, input |-> LongInput],
      [to |-> EmptyStr, input |-> LongInput],
      [to |-> AddrA, input |-> Absent],
      [to |-> AddrA, input |-> EmptyStr],
      [to |-> AddrB, input |-> PlainTransfer],
      [to |-> Absent, input |-> LongInput] }

\* transaction hashes are unique: the k-th delivered transaction has hash k
TxLists ==
    UNION { { [k \in 1..n |-> [to |-> sh[k].to, input |-> sh[k].input,
                               hash |-> k]] : sh \in [1..n -> TxShapes] }
            : n \in 0..MaxTx }

JsonList(items) == [tag |-> "list", s |-> items]
JsonStr(chars) == [tag |-> "str", s |-> chars]
JsonNull == [tag |-> "null", s |-> <<>>]
JsonAbsent == [tag |-> "absent", s |-> <<>>]

\* the "result" member of the txlist response body
TxListResponses ==
    { JsonList(l) : l \in TxLists }
    \cup { JsonAbsent, JsonNull, JsonStr(<<"N", "O", "T", "O", "K">>) }

Dict(source, updated) ==
    [tag |-> "dict", SourceCode |-> source, LastUpdated |-> updated]
Unbound == [tag |-> "unbound"]

DateFuture == Str(<<"2", "0", "2", "4", "-", "0", "3", "-", "0", "2">>)
DateAge1 == Str(<<"2", "0", "2", "4", "-", "0", "2", "-", "2", "9">>)
DateAge2 == Str(<<"2", "0", "2", "4", "-", "0", "2", "-", "2", "8">>)
DateAge3 == Str(<<"2", "0", "2", "4", "-", "0", "2", "-", "2", "7">>)
DateUnpadded == Str(<<"2", "0", "2", "4", "-", "2", "-", "2", "8">>)
DateSlashes == Str(<<"2", "8", "/", "0", "2", "/", "2", "0", "2", "4">>)
DateNoSuchDay == Str(<<"2", "0", "2", "4", "-", "0", "2", "-", "3", "0">>)
DateWithTime == Str(<<"2", "0", "2", "4", "-", "0", "2", "-", "2", "8", " ", "1", "0", ":", "0", "0">>)

IsoDates == {DateFuture, DateAge1, DateAge2, DateAge3}
Dates ==
    IsoDates \cup {DateUnpadded, DateSlashes, DateNoSuchDay, DateWithTime,
                   EmptyStr, Absent, None}

EmptySources == {Absent, None, EmptyStr, Str(<<" ", "\n">>)}
PublishedSources == {Str(<<"c">>), Str(<<" ", "c", " ">>)}

\* contract records: an unpublished contract with every date, and every
\* source-code value with a recent, an old and an empty date
ContractInfos ==
    { Dict(EmptyStr, d) : d \in Dates }
    \cup { Dict(src, d) : src \in EmptySources \cup PublishedSources,
                          d \in {DateAge1, DateAge3, EmptyStr} }

\* the "result" member of the getsourcecode response body
ContractResponses ==
    { JsonList(<<c>>) : c \in ContractInfos }
    \cup { JsonList(<<Dict(EmptyStr, DateAge1), Dict(Str(<<"c">>), DateAge1)>>),
           JsonList(<<>>), JsonAbsent, JsonNull,
           JsonStr(<<"M", "a", "x">>) }

\* 2024-03-01 at 00:00:00 and at 12:00:00
NowChoices ==
    { [ordinal |-> Ordinal(2024, 3, 1), seconds |-> sec] :
        sec \in {0, 12 * 3600} }

\* --age
MaxAgeChoices == {1, 2}

----------------------------------------------------------------------------
(* The functions of the script *)

Raise(exc) == [exc |-> exc, value |-> Unbound]
Return(v) == [exc |-> "none", value |-> v]

\* response.json().get("result", [])
FetchTransactions(body) == DictGet(body, JsonList(<<>>))

\* a guarded lookup: an empty result list gives an empty record
FetchContractInfoGuarded(body) ==
    LET r == DictGet(body, JsonList(<<>>))
    IN  IF r.tag = "list" /\ r.s # <<>> THEN Return(r.s[1])
        ELSE Return(Dict(Absent, Absent))

\* response.json().get("result", [])[0]
FetchContractInfo(body) ==
    LET r == DictGet(body, JsonList(<<>>))
    IN  CASE r.tag = "null" -> Raise("TypeError")
          [] r.tag = "list" ->
                IF r.s = <<>> THEN Raise("IndexError") ELSE Return(r.s[1])
          [] r.tag = "str" ->
                IF r.s = <<>> THEN Raise("IndexError")
                ELSE Return(JsonStr(<<r.s[1]>>))

\* the test without the "0x" case
IsSkippedNoPlain(t, inp) == ~Truthy(t) \/ ~Truthy(inp)

\* not to or not input_data or input_data == "0x"
IsSkipped(t, inp) == ~Truthy(t) \/ ~Truthy(inp) \/ inp = PlainTransfer

\* the test without the strip
UnverifiedNoStrip(source_code) == ~Truthy(source_code)

\* not source_code or source_code.strip() == ""
Unverified(source_code) ==
    ~Truthy(source_code) \/ Strip(source_code.s) = <<>>

\* an exclusive threshold
WithinAgeStrict(age_days, max) == age_days < max

\* age_days <= max_age_days
WithinAge(age_days, max) == age_days <= max

\* the dict appended to suspicious
Finding(t, inp, age_days, tx) ==
    [to |-> t.s, method |-> Slice(inp.s, 10), age_days |-> age_days,
     tx_hash |-> tx.hash]

\* insertion at the front
ListPrepend(list, f) == <<f>> \o list

\* suspicious.append(f)
ListAppend(list, f) == Append(list, f)

\* a memoised lookup: no call for an address already looked up
RecordCallCached(log, t, tx) ==
    IF \E k \in 1..Len(log) : log[k].address = t.s
    THEN log
    ELSE Append(log, [address |-> t.s, tx_hash |-> tx.hash])

\* fetch_contract_info(to, api_key) is called while tx is examined
RecordCall(log, t, tx) ==
    Append(log, [address |-> t.s, tx_hash |-> tx.hash])

\* lines 57-69 for one looked-up contract: the exception raised, if any,
\* and the list afterwards
Classify(tx, t, inp, info, n, max, list) ==
    IF info.tag # "dict" THEN [exc |-> "AttributeError", list |-> list]
    ELSE
      LET source_code == DictGet(info.SourceCode, EmptyStr)
          created == DictGet(info.LastUpdated, EmptyStr)
      IN  IF ~Unverified(source_code) THEN [exc |-> "none", list |-> list]
          ELSE IF created.tag # "str"
               THEN [exc |-> "TypeError", list |-> list]
          ELSE IF ~Strptime(created.s).ok
               THEN [exc |-> "ValueError", list |-> list]
          ELSE
            LET age_days == AgeDays(n, Strptime(created.s).ordinal)
            IN  IF WithinAge(age_days, max)
                THEN [exc |-> "none",
                      list |-> ListAppend(list, Finding(t, inp, age_days, tx))]
                ELSE [exc |-> "none", list |-> list]

----------------------------------------------------------------------------
(* The run *)

NoResult == [returned |-> FALSE, findings |-> <<>>]
NoReport == [shown |-> FALSE, nothing_found |-> FALSE, lines |-> <<>>]

Init ==
    /\ pc = "main"
    /\ api_txlist \in TxListResponses
    /\ max_age_days \in MaxAgeChoices
    /\ now \in NowChoices
    /\ txs = JsonList(<<>>)
    /\ i = 0
    /\ to = None
    /\ input_data = None
    /\ contract_info = Unbound
    /\ suspicious = <<>>
    /\ calls = <<>>
    /\ error = "none"
    /\ result = NoResult
    /\ printed = NoReport

\* an uncaught exception ends the process
Abort(exc) ==
    /\ pc' = "aborted"
    /\ error' = exc

\* lines 81-84: fetch the transactions and print how many there are
Main ==
    /\ pc = "main"
    /\ txs' = FetchTransactions(api_txlist)
    /\ IF txs'.tag = "null"
       THEN Abort("TypeError")
       ELSE pc' = "detect" /\ error' = error
    /\ UNCHANGED <<api_txlist, max_age_days, now, i, to, input_data,
                   contract_info, suspicious, calls, result, printed>>

\* lines 46-48: enter detect_suspicious_contracts
DetectStart ==
    /\ pc = "detect"
    /\ suspicious' = <<>>
    /\ i' = 1
    /\ pc' = "loop"
    /\ UNCHANGED <<api_txlist, max_age_days, txs, now, to, input_data,
                   contract_info, calls, error, result, printed>>

\* lines 50-56: take the next transaction, skip it or call
\* fetch_contract_info for its recipient
LoopHead ==
    /\ pc = "loop"
    /\ IF i > Len(txs.s)
       THEN /\ pc' = "return"
            /\ UNCHANGED <<i, to, input_data, calls, error>>
       ELSE IF txs.tag = "str"
       THEN /\ Abort("TypeError")
            /\ UNCHANGED <<i, to, input_data, calls>>
       ELSE IF txs.s[i].to.tag = "absent"
       THEN /\ Abort("KeyError")
            /\ UNCHANGED <<i, to, input_data, calls>>
       ELSE /\ to' = txs.s[i].to
            /\ input_data' = DictGet(txs.s[i].input, EmptyStr)
            /\ error' = error
            /\ IF IsSkipped(to', input_data')
               THEN i' = i + 1 /\ pc' = pc /\ calls' = calls
               ELSE /\ i' = i
                    /\ pc' = "lookup"
                    /\ calls' = RecordCall(calls, to', txs.s[i])
    /\ UNCHANGED <<api_txlist, max_age_days, txs, now, contract_info,
                   suspicious, result, printed>>

\* lines 56-69: the response of fetch_contract_info arrives and the
\* contract is classified
LookupReturn ==
    /\ pc = "lookup"
    /\ \E body \in ContractResponses :
         LET got == FetchContractInfo(body)
             out == Classify(txs.s[i], to, input_data, got.value, now,
                             max_age_days, suspicious)
         IN  IF got.exc # "none"
             THEN /\ Abort(got.exc)
                  /\ UNCHANGED <<i, contract_info, suspicious>>
             ELSE /\ contract_info' = got.value
                  /\ suspicious' = out.list
                  /\ IF out.exc # "none"
                     THEN Abort(out.exc) /\ i' = i
                     ELSE pc' = "loop" /\ i' = i + 1 /\ error' = error
    /\ UNCHANGED <<api_txlist, max_age_days, txs, now, to, input_data,
                   calls, result, printed>>

\* lines 71 and 85: the list is returned to main
ReturnFindings ==
    /\ pc = "return"
    /\ result' = [returned |-> TRUE, findings |-> suspicious]
    /\ pc' = "report"
    /\ UNCHANGED <<api_txlist, max_age_days, txs, now, i, to, input_data,
                   contract_info, suspicious, calls, error, printed>>

\* lines 87-92: the report
Report ==
    /\ pc = "report"
    /\ printed' = IF result.findings = <<>>
                  THEN [shown |-> TRUE, nothing_found |-> TRUE, lines |-> <<>>]
                  ELSE [shown |-> TRUE, nothing_found |-> FALSE,
                        lines |-> result.findings]
    /\ pc' = "done"
    /\ UNCHANGED <<api_txlist, max_age_days, txs, now, i, to, input_data,
                   contract_info, suspicious, calls, error, result>>

Next ==
    \/ Main
    \/ DetectStart
    \/ LoopHead
    \/ LookupReturn
    \/ ReturnFindings
    \/ Report

Spec == Init /\ [][Next]_vars

----------------------------------------------------------------------------
(* Vocabulary of the properties, stated on the data and not through the   *)
(* operators above                                                         *)

\* the transactions handed to the loop, when they are a list of objects
Transactions == IF txs.tag = "list" THEN txs.s ELSE <<>>

HasRecipient(tx) == tx.to.tag = "str" /\ tx.to.s # <<>>
HasPayload(tx) == tx.input.tag = "str" /\ tx.input.s # <<>>

\* a candidate: non-empty recipient, input payload present and not "0x"
IsCandidate(tx) ==
    HasRecipient(tx) /\ HasPayload(tx) /\ tx.input.s # <<"0", "x">>

\* recipient null, or input payload missing or empty, or payload "0x"
IsPlain(tx) ==
    \/ tx.to.tag = "null"
    \/ tx.input.tag = "absent"
    \/ tx.input.tag = "str" /\ tx.input.s \in {<<>>, <<"0", "x">>}

\* the loop has just finished transaction i - 1, a candidate, without an
\* exception: contract_info is the record looked up for it
JustClassified ==
    /\ pc = "loop"
    /\ i > 1
    /\ txs.tag = "list"
    /\ IsCandidate(txs.s[i - 1])

\* the exception was raised while transaction i was examined
AbortedAt(exc) == pc = "aborted" /\ error = exc /\ txs.tag = "list"

FindingsFor(list, h) == { k \in 1..Len(list) : list[k].tx_hash = h }
CallsFor(h) == { k \in 1..Len(calls) : calls[k].tx_hash = h }

AllBlank(chars) == \A k \in 1..Len(chars) : chars[k] \in Whitespace

\* source-code field absent, empty or whitespace-only
SourceBlank(info) ==
    \/ info.SourceCode.tag = "absent"
    \/ info.SourceCode.tag = "str" /\ AllBlank(info.SourceCode.s)

\* source-code field non-empty after trimming
SourcePublished(info) ==
    info.SourceCode.tag = "str" /\ ~AllBlank(info.SourceCode.s)

\* the first n characters of a string
FirstChars(chars, n) ==
    [k \in 1..(IF Len(chars) < n THEN Len(chars) ELSE n) |-> chars[k]]

\* the last-updated field is a string that parses; its day number
DateReadable(info) ==
    info.LastUpdated.tag = "str" /\ Strptime(info.LastUpdated.s).ok
DateOrdinal(info) == Strptime(info.LastUpdated.s).ordinal

\* seconds from midnight of the contract's date to now
SecondsSince(info) ==
    (now.ordinal - DateOrdinal(info)) * 86400 + now.seconds

FloorDays(seconds) == seconds \div 86400
TruncDays(seconds) ==
    IF seconds >= 0 THEN seconds \div 86400 ELSE -((-seconds) \div 86400)

Last(list) == list[Len(list)]

----------------------------------------------------------------------------
\* C1: a candidate transaction whose contract has empty source code yields
\* exactly one finding when age_days <= max_age_days (inclusive) and none
\* when age_days > max_age_days; the finding is appended with the
\* transaction's recipient, the first 10 characters of its input payload,
\* the computed age_days and its hash; no transaction ever has two findings.
C1_EmptySourceFlaggedByAge ==
    /\ \A k \in 1..Len(Transactions) :
          Cardinality(FindingsFor(suspicious, k)) <= 1
    /\ (JustClassified /\ SourceBlank(contract_info)
          /\ DateReadable(contract_info)) =>
          LET tx == txs.s[i - 1]
              age_days == AgeDays(now, DateOrdinal(contract_info))
          IN  IF age_days <= max_age_days
              THEN /\ Cardinality(FindingsFor(suspicious, i - 1)) = 1
                   /\ Last(suspicious) =
                        [to |-> tx.to.s,
                         method |-> FirstChars(tx.input.s, 10),
                         age_days |-> age_days,
                         tx_hash |-> tx.hash]
              ELSE FindingsFor(suspicious, i - 1) = {}

\* an unpublished contract exactly max_age_days old was flagged, with a
\* payload longer than the selector
C1_Witness ==
    /\ JustClassified
    /\ SourceBlank(contract_info)
    /\ DateReadable(contract_info)
    /\ AgeDays(now, DateOrdinal(contract_info)) = max_age_days
    /\ Len(txs.s[i - 1].input.s) > 10
    /\ FindingsFor(suspicious, i - 1) # {}

\* C2: a candidate whose contract has source code that is non-empty after
\* trimming never produces a finding, whatever the age and threshold; a
\* source-code field that is absent, empty or whitespace-only counts as
\* unverified: the date is then read and a recent contract is flagged.
C2_VerifiedNeverFlagged ==
    JustClassified =>
      /\ SourcePublished(contract_info) =>
            FindingsFor(suspicious, i - 1) = {}
      /\ (SourceBlank(contract_info) /\ DateReadable(contract_info)
            /\ FloorDays(SecondsSince(contract_info)) <= max_age_days) =>
            FindingsFor(suspicious, i - 1) # {}
      /\ SourceBlank(contract_info) => DateReadable(contract_info)

\* a published contract whose source needs trimming, recent enough to be
\* flagged had it been unverified, was classified without a finding
C2_Witness ==
    /\ JustClassified
    /\ contract_info.SourceCode = Str(<<" ", "c", " ">>)
    /\ DateReadable(contract_info)
    /\ FloorDays(SecondsSince(contract_info)) <= max_age_days
    /\ FindingsFor(suspicious, i - 1) = {}

\* C3: a transaction whose recipient is null, or whose input payload is
\* missing, empty or exactly "0x", gets no fetch_contract_info call and no
\* finding, whatever the other transactions are.
C3_PlainNeverLookedUp ==
    \A k \in 1..Len(Transactions) :
        IsPlain(txs.s[k]) =>
            /\ CallsFor(k) = {}
            /\ FindingsFor(suspicious, k) = {}
            /\ FindingsFor(result.findings, k) = {}

\* a run finished in which a "0x" transfer to a contract address was
\* passed over and the transaction after it was looked up and flagged
C3_Witness ==
    /\ pc = "done"
    /\ Len(Transactions) = 2
    /\ txs.s[1].to = AddrB /\ txs.s[1].input = PlainTransfer
    /\ CallsFor(1) = {}
    /\ CallsFor(2) # {}
    /\ FindingsFor(result.findings, 2) # {}

\* C4: the returned findings are in input order: a finding of an earlier
\* transaction precedes a finding of a later one, each finding belongs to
\* the transaction whose hash it carries, the returned list is the
\* accumulated one, and an empty input gives an empty list and the
\* "nothing found" report.
C4_FindingsInInputOrder ==
    /\ \A a, b \in 1..Len(suspicious) :
          a < b => suspicious[a].tx_hash < suspicious[b].tx_hash
    /\ \A a \in 1..Len(suspicious) :
          /\ suspicious[a].tx_hash \in 1..Len(Transactions)
          /\ suspicious[a].tx_hash < i
          /\ suspicious[a].to = txs.s[suspicious[a].tx_hash].to.s
    /\ result.returned => result.findings = suspicious
    /\ printed.shown =>
          /\ printed.lines = suspicious
          /\ printed.nothing_found = (suspicious = <<>>)
    /\ (pc = "done" /\ Transactions = <<>>) =>
          result.findings = <<>> /\ printed.nothing_found

\* two transactions to different contracts were both flagged and reported
C4_Witness ==
    /\ pc = "done"
    /\ Len(result.findings) = 2
    /\ result.findings[1].to # result.findings[2].to
    /\ printed.lines = result.findings

\* the run stopped at transaction i: nothing was returned or reported, and
\* no transaction after i was looked up
RunAbortedAtCurrent ==
    /\ ~result.returned
    /\ result.findings = <<>>
    /\ ~printed.shown
    /\ i \in 1..Len(Transactions)
    /\ \A k \in 1..Len(calls) : calls[k].tx_hash <= i

\* C5: an empty result list from the contract-info API makes
\* fetch_contract_info fail with an out-of-range error that nothing
\* catches: the run stops at that transaction, returns and reports no
\* findings (those accumulated before are lost) and looks up no later
\* transaction.
C5_EmptyResultAborts ==
    /\ FetchContractInfo(JsonList(<<>>)).exc = "IndexError"
    /\ AbortedAt("IndexError") =>
          /\ RunAbortedAtCurrent
          /\ IsCandidate(txs.s[i])
          /\ CallsFor(i) # {}
    /\ pc = "aborted" <=> error # "none"
    /\ pc = "aborted" => ~result.returned /\ ~printed.shown

\* the lookup for the second transaction failed after the first one had
\* produced a finding, which is never returned
C5_Witness ==
    /\ AbortedAt("IndexError")
    /\ i = 2
    /\ Len(suspicious) = 1
    /\ ~result.returned
    /\ ~printed.shown

\* the string has the shape year-month-day that the format %Y-%m-%d reads:
\* four digits, "-", one or two digits, "-", one or two digits (or a blank
\* and a digit)
YmdShape(chars) ==
    \E a, b \in {1, 2} :
        /\ Len(chars) = 6 + a + b
        /\ \A k \in 1..4 : chars[k] \in Digits
        /\ chars[5] = "-"
        /\ \A k \in 6..(5 + a) : chars[k] \in Digits
        /\ chars[6 + a] = "-"
        /\ \A k \in (7 + a)..(6 + a + b) :
              chars[k] \in Digits \/ (b = 2 /\ k = 7 + a /\ chars[k] = " ")

\* the last-updated string is missing, empty or not year-month-day
DateUnparsable(info) ==
    \/ info.LastUpdated.tag # "str"
    \/ ~YmdShape(info.LastUpdated.s)

\* C6 as stated: whenever the record looked up for a candidate has a
\* last-updated string that is empty, missing or in a format other than
\* year-month-day, the run aborts at that transaction, so the loop never
\* goes on after such a record.
C6_AnyMalformedDateAborts ==
    ~(JustClassified /\ DateUnparsable(contract_info))

\* C6 amended: whenever the record looked up for a candidate is unverified
\* (source code absent, null, empty or blank) and its last-updated string
\* is empty, missing or not of the year-month-day shape that %Y-%m-%d
\* reads, the failure propagates: the loop never goes on after such a
\* record, and a run stopped by the parse failure returns and reports
\* nothing and looks up no later transaction.  A verified contract's date
\* is never parsed.
C6_UnverifiedMalformedDateAborts ==
    /\ ~(JustClassified /\ ~SourcePublished(contract_info)
           /\ DateUnparsable(contract_info))
    /\ AbortedAt("ValueError") =>
          /\ RunAbortedAtCurrent
          /\ IsCandidate(txs.s[i])
          /\ contract_info.tag = "dict"
          /\ ~SourcePublished(contract_info)
    /\ (JustClassified /\ SourcePublished(contract_info)) => error = "none"

\* an unverified contract dated DD/MM/YYYY stopped the run at the second
\* transaction, after the first had produced a finding
C6_Witness ==
    /\ AbortedAt("ValueError")
    /\ i = 2
    /\ contract_info.LastUpdated = DateSlashes
    /\ Len(suspicious) = 1
    /\ ~result.returned

\* C7: fetch_transactions returns the raw result list when the API
\* delivers one and an empty sequence when the response has no result
\* field or is an error response, so what is handed to
\* detect_suspicious_contracts is always a sequence of transaction objects.
C7_FetchAlwaysYieldsList ==
    pc # "main" =>
      /\ api_txlist.tag = "list" => txs = api_txlist
      /\ api_txlist.tag # "list" => txs = JsonList(<<>>)
      /\ txs.tag = "list"

\* the recipients of the candidates among the first n transactions
RECURSIVE CandidateCalls(_, _)
CandidateCalls(list, n) ==
    IF n = 0 THEN <<>>
    ELSE IF IsCandidate(list[n])
         THEN Append(CandidateCalls(list, n - 1),
                     [address |-> list[n].to.s, tx_hash |-> list[n].hash])
         ELSE CandidateCalls(list, n - 1)

\* C8: the fetch_contract_info calls are the recipients of the candidate
\* transactions in input order, one call per candidate even when a
\* recipient repeats; while a lookup is pending it is the one for the
\* transaction being examined, and the next transaction is examined only
\* after it has returned.
C8_OneLookupPerCandidate ==
    /\ pc \in {"return", "report", "done"} =>
          calls = CandidateCalls(Transactions, Len(Transactions))
    /\ pc = "loop" => calls = CandidateCalls(Transactions, i - 1)
    /\ pc = "lookup" =>
          /\ calls = CandidateCalls(Transactions, i)
          /\ IsCandidate(txs.s[i])
          /\ Last(calls).tx_hash = i

\* a completed run looked the same recipient up twice
C8_Witness ==
    /\ pc = "done"
    /\ Len(calls) = 2
    /\ calls[1].address = calls[2].address
    /\ calls[1].tx_hash # calls[2].tx_hash

\* C9: a transaction object without a "to" field is skipped like one whose
\* recipient is null: no lookup, no finding, and the run goes on with the
\* next transaction instead of stopping there.
C9_AbsentRecipientSkipped ==
    \A k \in 1..Len(Transactions) :
        txs.s[k].to.tag = "absent" =>
            /\ CallsFor(k) = {}
            /\ FindingsFor(suspicious, k) = {}
            /\ ~(pc = "aborted" /\ i = k)

\* the finished candidate was flagged
JustFlagged ==
    /\ JustClassified
    /\ suspicious # <<>>
    /\ Last(suspicious).tx_hash = i - 1

\* C10 as stated: age_days is the time from midnight of the parsed date to
\* now in whole days, truncated toward zero, also for a date after now.
C10_AgeTruncatedTowardZero ==
    JustFlagged =>
        Last(suspicious).age_days = TruncDays(SecondsSince(contract_info))

\* C10 amended: age_days is the time from midnight of the parsed date to
\* now in whole days rounded down (toward minus infinity): a date after
\* now gives a negative age, -1 for a date less than a day ahead.  This
\* age_days is what is compared with max_age_days and what the finding
\* reports.
C10_AgeRoundedDown ==
    /\ JustFlagged =>
          Last(suspicious).age_days = FloorDays(SecondsSince(contract_info))
    /\ (JustClassified /\ ~SourcePublished(contract_info)) =>
          (JustFlagged <=>
             FloorDays(SecondsSince(contract_info)) <= max_age_days)

\* at noon a contract dated tomorrow was flagged with age -1
C10_Witness ==
    /\ JustFlagged
    /\ now.seconds > 0
    /\ contract_info.LastUpdated = DateFuture
    /\ SecondsSince(contract_info) < 0
    /\ SecondsSince(contract_info) > -86400
    /\ Last(suspicious).age_days = -1

====
